---- MODULE Spec2Model ----
(***************************************************************************)
(* State-machine model of the 3D preview modal of the product catalogue:   *)
(*   Modal3DViewerV2  (src/src/components/Modal3DViewerV2.tsx), the        *)
(*                    pre-fetch-then-render variant, and                   *)
(*   Modal3DViewer    (src/src/components/Modal3DViewer.tsx), the          *)
(*                    direct-streaming variant,                            *)
(* and of the cache-invalidation hook of the product cache:                *)
(*   useInvalidateProducts  (src/unnamed/part_000).                        *)
(* A behaviour exercises one of the three; `unit` records which one.       *)
(*                                                                         *)
(* React semantics used by the model.  A change of props is a render; the  *)
(* useEffect of that render (cleanup of the previous effect, then the new  *)
(* effect body) runs after the render has been committed, so the state     *)
(* between the two steps is a state of the program.  React flushes a       *)
(* pending effect before it handles any further event or state update of   *)
(* the component, so every other action waits for the pending effect.      *)
(* A promise that settles in that window behaves, after the flush, as if   *)
(* it had settled just before the render.                                  *)
(* useGLTF suspends while the asset loads and throws from render when the  *)
(* load or the parse fails; an error thrown from render leaves a component *)
(* that has no error boundary and React removes the tree it passed.        *)
(*                                                                         *)
(* Distances are stored in tenths of a unit (1.5 is 15), strings that the  *)
(* code inspects are sequences of characters or of text fragments.         *)
(***************************************************************************)
EXTENDS Integers, Sequences, FiniteSets, TLC

\* ------------------------------------------------------------------ bounds
\* number of runs of the useEffect of Modal3DViewerV2 in one behaviour
MaxEffects == 3

\* --------------------------------------------------------------- constants
Null == 0                 \* null of localUrl / objectUrlToRevoke / no camera
NoError == <<>>           \* null (and the falsy "") of an error message

\* Modal3DViewerV2: camera position [0, 0, 4], step 0.5, clamp [1.5, 8]
DefaultZ2 == 40
StepZ2 == 5
MinZ2 == 15
MaxZ2 == 80
\* Modal3DViewer: zoom state 5, step 1, clamp [2, 10]
DefaultZ1 == 50
StepZ1 == 10
MinZ1 == 20
MaxZ1 == 100

\* model URLs the parent may pass: empty, blank, two assets, one padded
Urls == { <<>>, <<" ">>, <<"a">>, <<" ", "a">>, <<"b">> }
\* HTTP status codes a response may carry
Statuses == {200, 404, 500}
\* values a rejected fetch may throw: e.message, or a non-string message
Rejections == {"Failed to fetch", "Load failed", "nonstring"}

\* useGLTF has not been called
NoUrl == <<"none">>
\* product ids the hook may be called with; the last one is not cached
Ids == {"p1", "p2", "p3"}
\* the query keys of the entries in the query cache
CacheEntries ==
  { <<"products">>, <<"product", "p1">>, <<"product", "p2">>,
    <<"productVariations", "p1">>, <<"productVariations", "p2">>,
    <<"categories">> }

Max(a, b) == IF a >= b THEN a ELSE b
Min(a, b) == IF a <= b THEN a ELSE b

\* ------------------------------------------------------------ pure helpers
\* the URL is empty or consists of white space only: it names no asset
IsBlank(u) == \A k \in 1..Len(u) : u[k] = " "

RECURSIVE TrimStart(_)
TrimStart(s) == IF s # <<>> /\ Head(s) = " " THEN TrimStart(Tail(s)) ELSE s

RECURSIVE TrimEnd(_)
TrimEnd(s) ==
  IF s # <<>> /\ s[Len(s)] = " " THEN TrimEnd(SubSeq(s, 1, Len(s) - 1)) ELSE s

\* a plausible slip: the URL is used as given
NormalizeNoTrim(u) == u

\* (modelUrl || "").trim()
Normalize(u) == TrimEnd(TrimStart(u))

\* res.ok
ResOk(status) == status \in 200..299

\* the decimal text of a status code inside the template literal
StatusText(status) ==
  CASE status = 200 -> "200" [] status = 404 -> "404" [] status = 500 -> "500"

\* a plausible slip: the message does not interpolate res.status
HttpErrorNoStatus(status) == <<"HTTP ", " ao baixar o arquivo">>

\* new Error(`HTTP ${res.status} ao baixar o arquivo`).message
HttpError(status) == <<"HTTP ", StatusText(status), " ao baixar o arquivo">>

\* typeof e?.message === "string" ? e.message : "Falha ao baixar o modelo"
RejectionMessage(e) ==
  IF e = "nonstring" THEN <<"Falha ao baixar o modelo">> ELSE <<e>>

\* msg.toLowerCase().includes("failed to fetch")
IsFailedToFetch(msg) == msg = <<"Failed to fetch">>

CorsHint == " Provavel bloqueio de CORS no servidor do arquivo (precisa liberar Access-Control-Allow-Origin)."

\* `${msg}.${corsHint}`
ErrorText(msg) ==
  msg \o <<".">> \o (IF IsFailedToFetch(msg) THEN <<CorsHint>> ELSE <<>>)

MsgNoUrl == <<"URL do modelo 3D nao informada.">>
MsgNoUrlV1 == <<"URL do modelo nao fornecida">>
MsgWebGL == <<"Erro no WebGL">>

\* a plausible slip: Math.min where Math.max was meant
ZoomInV2Swapped(z) == Min(z - StepZ2, MinZ2)

\* Math.max(position.z - 0.5, 1.5)
ZoomInV2(z) == Max(z - StepZ2, MinZ2)

\* a plausible slip: Math.max where Math.min was meant
ZoomOutV2Swapped(z) == Max(z + StepZ2, MaxZ2)

\* Math.min(position.z + 0.5, 8)
ZoomOutV2(z) == Min(z + StepZ2, MaxZ2)

\* Math.max(zoom - 1, 2)
ZoomInV1(z) == Max(z - StepZ1, MinZ1)
\* Math.min(zoom + 1, 10)
ZoomOutV1(z) == Min(z + StepZ1, MaxZ1)

\* ------------------------------------------------------------------- state
VARIABLES
  unit,          \* "V2" or "V1": the component that is mounted
  mounted,       \* the component is mounted
  isOpen,        \* prop isOpen of the last render
  modelUrl,      \* prop modelUrl of the last render
  depsRun,       \* dependency list of the last effect run, <<>> before it
  \* Modal3DViewerV2
  localUrl,      \* useState localUrl: Null or an object URL
  error,         \* useState error
  isPreparing,   \* useState isPreparing
  isModelReady,  \* useState isModelReady
  eff,           \* the closures of the effect runs, oldest first
  objectUrls,    \* the browser's object URLs; the URL that the closure i
                 \* creates is named i: [created, revoked] count the calls
  \* Modal3DViewer
  hasError,      \* useState hasError
  errorMessage,  \* useState errorMessage
  zoom,          \* useState zoom
  isLoading,     \* useState isLoading
  \* the Canvas of either component
  cameraZ,       \* position.z of the Canvas camera, Null without a Canvas
  controls,      \* controlsRef.current is set
  position0,     \* the position OrbitControls.reset() restores
  zoomLog,       \* the last two zoom clicks: [op, before]
  loaderUrl,     \* Modal3DViewer: the url of the last useGLTF(url) call of
                 \* ModelLoader in this Canvas, NoUrl before the first
  isLoaded,      \* Modal3DViewer: useState isLoaded of the wrapper
  crashed,       \* an error thrown from render has left the component
  \* useInvalidateProducts
  stale,         \* the cache entries that are marked stale
  lastOp,        \* the last call of the hook: <<name>> or <<name, id>>
  issued,        \* the query keys that call passed to invalidateQueries
  marked         \* the cache entries that call marked stale

propVars == <<unit, mounted, isOpen, modelUrl, depsRun, crashed>>
v2Vars == <<localUrl, error, isPreparing, isModelReady, eff, objectUrls>>
v1Vars == <<hasError, errorMessage, zoom, isLoading>>
canvasVars == <<cameraZ, controls, position0, zoomLog, loaderUrl, isLoaded>>
cacheVars == <<stale, lastOp, issued, marked>>
vars == <<propVars, v2Vars, v1Vars, canvasVars, cacheVars>>

\* the dependency list of the effect in the current render
Deps ==
  IF unit = "V2" THEN <<isOpen, Normalize(modelUrl)>> ELSE <<isOpen, modelUrl>>

\* the last render changed the dependencies and its effect has not run yet
EffectPending == mounted /\ depsRun # Deps

\* the Canvas element is part of the rendered tree
CanvasMounted ==
  /\ mounted
  /\ isOpen
  /\ IF unit = "V2" THEN error = NoError /\ localUrl # Null ELSE ~hasError

\* key of the Canvas element
CanvasKey == IF unit = "V2" THEN localUrl ELSE Null

\* camera={{ position: [0, 0, z] }} is applied when the Canvas is created
CanvasInitZ == IF unit = "V2" THEN DefaultZ2 ELSE zoom

\* what a render does to the Canvas: it is unmounted, created, or kept
SyncCanvas ==
  IF ~CanvasMounted'
    THEN /\ cameraZ' = Null /\ controls' = FALSE /\ position0' = Null
         /\ loaderUrl' = NoUrl /\ isLoaded' = FALSE
    ELSE IF ~CanvasMounted \/ CanvasKey' # CanvasKey
      THEN /\ cameraZ' = CanvasInitZ' /\ controls' = FALSE /\ position0' = Null
           /\ loaderUrl' = NoUrl /\ isLoaded' = FALSE
      ELSE UNCHANGED <<cameraZ, controls, position0, loaderUrl, isLoaded>>

\* the zoom and reset buttons are rendered
ControlsOffered ==
  /\ mounted
  /\ isOpen
  /\ IF unit = "V2" THEN error = NoError /\ isModelReady
                    ELSE ~hasError /\ ~isLoading

Init ==
  /\ unit \in {"V2", "V1", "cache"}
  /\ mounted = (unit # "cache")
  /\ isOpen \in (IF unit = "cache" THEN {FALSE} ELSE BOOLEAN)
  /\ modelUrl \in (IF unit = "cache" THEN {<<>>} ELSE Urls)
  /\ depsRun = <<>>
  /\ localUrl = Null
  /\ error = NoError
  /\ isPreparing = FALSE
  /\ isModelReady = FALSE
  /\ eff = <<>>
  /\ objectUrls = <<>>
  /\ hasError = FALSE
  /\ errorMessage = NoError
  /\ zoom = DefaultZ1
  /\ isLoading = TRUE
  /\ cameraZ = IF CanvasMounted THEN CanvasInitZ ELSE Null
  /\ controls = FALSE
  /\ position0 = Null
  /\ zoomLog = <<>>
  /\ loaderUrl = NoUrl
  /\ isLoaded = FALSE
  /\ crashed = FALSE
  /\ stale \in (IF unit = "cache" THEN SUBSET CacheEntries ELSE {{}})
  /\ lastOp = <<>>
  /\ issued = <<>>
  /\ marked = {}

\* ------------------------------------------------- props: the parent renders
\* the parent opens the modal, with the same or with another model URL
Open(u) ==
  /\ mounted /\ ~EffectPending /\ ~isOpen
  /\ unit = "V2" => Len(eff) < MaxEffects
  /\ isOpen' = TRUE
  /\ modelUrl' = u
  /\ zoomLog' = <<>>
  /\ UNCHANGED <<unit, crashed, cacheVars, mounted, depsRun, v2Vars, v1Vars>>
  /\ SyncCanvas

\* the parent closes the modal (onClose)
Close ==
  /\ mounted /\ ~EffectPending /\ isOpen
  /\ unit = "V2" => Len(eff) < MaxEffects
  /\ isOpen' = FALSE
  /\ zoomLog' = <<>>
  /\ UNCHANGED <<unit, crashed, cacheVars, mounted, modelUrl, depsRun, v2Vars, v1Vars>>
  /\ SyncCanvas

\* the parent passes another model URL, the modal open or closed
ChangeUrl(u) ==
  /\ mounted /\ ~EffectPending /\ u # modelUrl
  /\ unit = "V2" => Len(eff) < MaxEffects
  /\ modelUrl' = u
  /\ UNCHANGED <<unit, crashed, cacheVars, mounted, isOpen, depsRun, v2Vars, v1Vars, zoomLog>>
  /\ SyncCanvas

\* ------------------------------------------ Modal3DViewerV2: the useEffect
\* let cancelled = false; let objectUrlToRevoke = null; and where prepare() is
NewClosure(pc, fetches) ==
  [cancelled |-> FALSE, objectUrlToRevoke |-> Null, pc |-> pc,
   fetches |-> fetches, outcome |-> "none", applied |-> FALSE, status |-> 0]

\* no call has been made yet for the object URL of a new closure
NoObjectUrl == [created |-> 0, revoked |-> 0]

\* URL.createObjectURL(blob), called by the closure i
CreateObjectURL(urls, i) == [urls EXCEPT ![i].created = @ + 1]

\* URL.revokeObjectURL(h)
RevokeObjectURL(urls, h) == [urls EXCEPT ![h].revoked = @ + 1]

\* a plausible slip: the cleanup forgets to set the flag
CleanupNoCancel(c) == c

\* cleanup, first statement: cancelled = true
CleanupClosure(c) == [c EXCEPT !.cancelled = TRUE]

\* a plausible slip: the cleanup does not revoke
CleanupNoRevoke(c, urls) == urls

\* cleanup, second statement: if (objectUrlToRevoke) URL.revokeObjectURL(..)
CleanupUrls(c, urls) ==
  IF c.objectUrlToRevoke # Null
    THEN RevokeObjectURL(urls, c.objectUrlToRevoke)
    ELSE urls

\* the closures after the cleanup of the last effect run
EffAfterCleanup ==
  IF eff = <<>> THEN eff ELSE [eff EXCEPT ![Len(eff)] = CleanupClosure(@)]

\* the object URLs after the cleanup of the last effect run
UrlsAfterCleanup ==
  IF eff = <<>> THEN objectUrls ELSE CleanupUrls(eff[Len(eff)], objectUrls)

\* a plausible slip: the reset leaves the ready flag as it was
ReadyKeptOnReset == isModelReady

\* setIsModelReady(false) at the start of prepare()
ReadyAfterReset == FALSE

\* a plausible slip: the finally block does not clear the flag
PreparingKeptOnSettle == isPreparing

\* finally { if (!cancelled) setIsPreparing(false) }
PreparingAfterSettle == FALSE

\* React runs the cleanup of the previous effect, then the effect: prepare()
\* up to its first await
RunEffectV2 ==
  /\ unit = "V2" /\ EffectPending
  /\ depsRun' = Deps
  /\ objectUrls' = Append(UrlsAfterCleanup, NoObjectUrl)
  /\ IF ~isOpen
       THEN /\ eff' = Append(EffAfterCleanup, NewClosure("returned", 0))
            /\ UNCHANGED <<localUrl, error, isPreparing, isModelReady>>
       ELSE /\ localUrl' = Null
            /\ isModelReady' = ReadyAfterReset
            /\ IF Normalize(modelUrl) = <<>>
                 THEN /\ error' = MsgNoUrl
                      /\ isPreparing' = FALSE
                      /\ eff' = Append(EffAfterCleanup, NewClosure("returned", 0))
                 ELSE /\ error' = NoError
                      /\ isPreparing' = TRUE
                      /\ eff' = Append(EffAfterCleanup, NewClosure("fetch", 1))
  /\ zoomLog' = <<>>
  /\ UNCHANGED <<unit, crashed, cacheVars, mounted, isOpen, modelUrl, v1Vars>>
  /\ SyncCanvas

\* the component is unmounted: React runs the cleanup of the last effect
Unmount ==
  /\ mounted
  /\ mounted' = FALSE
  /\ eff' = EffAfterCleanup
  /\ objectUrls' = UrlsAfterCleanup
  /\ zoomLog' = <<>>
  /\ UNCHANGED <<unit, crashed, cacheVars, isOpen, modelUrl, depsRun, localUrl, error,
                 isPreparing, isModelReady, v1Vars>>
  /\ SyncCanvas

\* a plausible slip: the catch block reports the failure and fetches again
CatchRetry(i, status, msg) ==
  /\ eff' = [eff EXCEPT ![i].pc = "fetch", ![i].outcome = "fail",
                        ![i].fetches = 2,
                        ![i].status = IF eff[i].cancelled THEN 0 ELSE status,
                        ![i].applied = ~eff[i].cancelled]
  /\ IF eff[i].cancelled
       THEN UNCHANGED <<error, isPreparing>>
       ELSE error' = ErrorText(msg) /\ isPreparing' = PreparingAfterSettle
  /\ UNCHANGED <<propVars, cacheVars, localUrl, isModelReady, objectUrls, v1Vars, zoomLog>>
  /\ SyncCanvas

\* the catch and finally blocks of prepare() for the closure i; the model
\* records in a closure that applies its result the non-successful status it
\* threw for (0 for a rejection)
Catch(i, status, msg) ==
  /\ eff' = [eff EXCEPT ![i].pc = "done", ![i].outcome = "fail",
                        ![i].status = IF eff[i].cancelled THEN 0 ELSE status,
                        ![i].applied = ~eff[i].cancelled]
  /\ IF eff[i].cancelled
       THEN UNCHANGED <<error, isPreparing>>
       ELSE error' = ErrorText(msg) /\ isPreparing' = PreparingAfterSettle
  /\ UNCHANGED <<propVars, cacheVars, localUrl, isModelReady, objectUrls, v1Vars, zoomLog>>
  /\ SyncCanvas

\* await fetch(..) resolves with a response of the given status
FetchResolve(i, status) ==
  /\ unit = "V2" /\ ~EffectPending
  /\ i \in DOMAIN eff /\ eff[i].pc = "fetch"
  /\ IF ResOk(status)
       THEN /\ eff' = [eff EXCEPT ![i].pc = "blob"]
            /\ UNCHANGED <<propVars, cacheVars, localUrl, error, isPreparing, isModelReady,
                           objectUrls, v1Vars, canvasVars>>
       ELSE Catch(i, status, HttpError(status))

\* await fetch(..) rejects (network failure, CORS)
FetchReject(i, e) ==
  /\ unit = "V2" /\ ~EffectPending
  /\ i \in DOMAIN eff /\ eff[i].pc = "fetch"
  /\ Catch(i, 0, RejectionMessage(e))

\* await res.blob() resolves: createObjectURL, then the cancelled check
BlobResolve(i) ==
  /\ unit = "V2" /\ ~EffectPending
  /\ i \in DOMAIN eff /\ eff[i].pc = "blob"
  /\ objectUrls' = CreateObjectURL(objectUrls, i)
  /\ eff' = [eff EXCEPT ![i].pc = "done", ![i].outcome = "ok",
                        ![i].applied = ~eff[i].cancelled,
                        ![i].objectUrlToRevoke = i]
  /\ IF eff[i].cancelled
       THEN UNCHANGED <<localUrl, isPreparing>>
       ELSE localUrl' = i /\ isPreparing' = PreparingAfterSettle
  /\ UNCHANGED <<propVars, cacheVars, error, isModelReady, v1Vars, zoomLog>>
  /\ SyncCanvas

\* await res.blob() rejects
BlobReject(i, e) ==
  /\ unit = "V2" /\ ~EffectPending
  /\ i \in DOMAIN eff /\ eff[i].pc = "blob"
  /\ Catch(i, 0, RejectionMessage(e))

\* useGLTF(localUrl) has the scene: the Suspense content is committed, the
\* effect of Model calls onLoaded, OrbitControls fills controlsRef
SceneLoadedV2 ==
  /\ unit = "V2" /\ ~EffectPending /\ CanvasMounted /\ ~controls
  /\ isModelReady' = TRUE
  /\ controls' = TRUE
  /\ position0' = cameraZ
  /\ UNCHANGED <<propVars, cacheVars, localUrl, error, isPreparing, eff, objectUrls,
                 v1Vars, cameraZ, zoomLog, loaderUrl, isLoaded>>

\* an error thrown while the scene renders: neither component has an error
\* boundary, so the error leaves the component, React removes the tree and
\* runs the cleanup of the last effect; no state of the component is set
ThrowFromRender ==
  /\ crashed' = TRUE
  /\ mounted' = FALSE
  /\ eff' = EffAfterCleanup
  /\ objectUrls' = UrlsAfterCleanup
  /\ zoomLog' = <<>>
  /\ UNCHANGED <<unit, cacheVars, isOpen, modelUrl, depsRun, localUrl, error,
                 isPreparing, isModelReady, v1Vars>>
  /\ SyncCanvas

\* useGLTF(localUrl) fails to load or parse the blob: Model throws
SceneFailedV2 ==
  /\ unit = "V2" /\ ~EffectPending /\ CanvasMounted /\ ~controls
  /\ ThrowFromRender

\* the zoom log keeps the last two clicks
Logged(op, before) ==
  LET l == Append(zoomLog, [op |-> op, before |-> before])
  IN IF Len(l) > 2 THEN Tail(l) ELSE l

HandleZoomInV2 ==
  /\ unit = "V2" /\ ~EffectPending /\ ControlsOffered
  /\ IF ~controls
       THEN UNCHANGED <<cameraZ, zoomLog>>
       ELSE cameraZ' = ZoomInV2(cameraZ) /\ zoomLog' = Logged("in", cameraZ)
  /\ UNCHANGED <<propVars, cacheVars, v2Vars, v1Vars, controls, position0, loaderUrl, isLoaded>>

HandleZoomOutV2 ==
  /\ unit = "V2" /\ ~EffectPending /\ ControlsOffered
  /\ IF ~controls
       THEN UNCHANGED <<cameraZ, zoomLog>>
       ELSE cameraZ' = ZoomOutV2(cameraZ) /\ zoomLog' = Logged("out", cameraZ)
  /\ UNCHANGED <<propVars, cacheVars, v2Vars, v1Vars, controls, position0, loaderUrl, isLoaded>>

\* controlsRef.current.reset()
HandleResetV2 ==
  /\ unit = "V2" /\ ~EffectPending /\ ControlsOffered
  /\ IF ~controls
       THEN UNCHANGED <<cameraZ, zoomLog>>
       ELSE cameraZ' = position0 /\ zoomLog' = <<>>
  /\ UNCHANGED <<propVars, cacheVars, v2Vars, v1Vars, controls, position0, loaderUrl, isLoaded>>

\* -------------------------------------------- Modal3DViewer: direct variant
\* useEffect(() => { if (isOpen) { ...reset... } }, [isOpen, modelUrl])
ResetEffectV1 ==
  /\ unit = "V1" /\ EffectPending
  /\ depsRun' = Deps
  /\ IF isOpen
       THEN /\ hasError' = FALSE
            /\ errorMessage' = NoError
            /\ isLoading' = TRUE
            /\ zoom' = DefaultZ1
       ELSE UNCHANGED <<hasError, errorMessage, isLoading, zoom>>
  /\ zoomLog' = <<>>
  /\ UNCHANGED <<unit, crashed, cacheVars, mounted, isOpen, modelUrl, v2Vars>>
  /\ SyncCanvas

\* the Canvas renders its children: ModelWithErrorBoundary has no loadError
\* and renders ModelLoader, which calls useGLTF(url) and suspends
RenderSceneV1 ==
  /\ unit = "V1" /\ ~EffectPending /\ CanvasMounted
  /\ loaderUrl # modelUrl
  /\ loaderUrl' = modelUrl
  /\ controls' = FALSE
  /\ UNCHANGED <<propVars, cacheVars, v2Vars, v1Vars, cameraZ, position0,
                 zoomLog, isLoaded>>

\* useGLTF(url) has the scene of an asset URL: the Suspense content of the
\* Canvas is committed and OrbitControls fills controlsRef; the onLoad of
\* ModelLoader only sets the wrapper's isLoaded
SceneLoadedV1 ==
  /\ unit = "V1" /\ ~EffectPending /\ CanvasMounted /\ ~controls
  /\ loaderUrl = modelUrl
  /\ ~IsBlank(modelUrl)
  /\ controls' = TRUE
  /\ position0' = (IF position0 = Null THEN cameraZ ELSE position0)
  /\ isLoaded' = TRUE
  /\ UNCHANGED <<propVars, cacheVars, v2Vars, v1Vars, cameraZ, zoomLog,
                 loaderUrl>>

\* useGLTF(url) fails to load or parse: ModelLoader throws and never calls
\* the onError it was given
SceneFailedV1 ==
  /\ unit = "V1" /\ ~EffectPending /\ CanvasMounted /\ ~controls
  /\ loaderUrl = modelUrl
  /\ ThrowFromRender

\* OrbitControls onEnd={() => setIsLoading(false)}: the user ends a gesture
OrbitEndV1 ==
  /\ unit = "V1" /\ ~EffectPending /\ CanvasMounted /\ controls
  /\ isLoading' = FALSE
  /\ UNCHANGED <<propVars, cacheVars, v2Vars, hasError, errorMessage, zoom, canvasVars>>

\* handleError(error)
HandleErrorV1(msg) ==
  /\ hasError' = TRUE
  /\ errorMessage' = msg
  /\ isLoading' = FALSE
  /\ zoomLog' = <<>>
  /\ UNCHANGED <<propVars, cacheVars, v2Vars, zoom>>
  /\ SyncCanvas

\* the effect of ModelWithErrorBoundary for an empty url: setLoadError(..)
\* and onError(..).  It runs only if React commits the wrapper while
\* ModelLoader is suspended (a legacy root does, a concurrent root does
\* not), and in either case after the render that called useGLTF("")
UrlCheckEffectV1 ==
  /\ unit = "V1" /\ ~EffectPending /\ CanvasMounted /\ ~controls
  /\ loaderUrl = modelUrl
  /\ modelUrl = <<>>
  /\ HandleErrorV1(MsgNoUrlV1)

\* Canvas onError={() => handleError("Erro no WebGL")}
CanvasErrorV1 ==
  /\ unit = "V1" /\ ~EffectPending /\ CanvasMounted
  /\ HandleErrorV1(MsgWebGL)

HandleZoomInV1 ==
  /\ unit = "V1" /\ ~EffectPending /\ ControlsOffered
  /\ IF ~controls
       THEN UNCHANGED <<zoom, cameraZ, zoomLog>>
       ELSE /\ zoom' = ZoomInV1(zoom)
            /\ cameraZ' = ZoomInV1(zoom)
            /\ zoomLog' = Logged("in", zoom)
  /\ UNCHANGED <<propVars, cacheVars, v2Vars, hasError, errorMessage, isLoading,
                 controls, position0, loaderUrl, isLoaded>>

HandleZoomOutV1 ==
  /\ unit = "V1" /\ ~EffectPending /\ ControlsOffered
  /\ IF ~controls
       THEN UNCHANGED <<zoom, cameraZ, zoomLog>>
       ELSE /\ zoom' = ZoomOutV1(zoom)
            /\ cameraZ' = ZoomOutV1(zoom)
            /\ zoomLog' = Logged("out", zoom)
  /\ UNCHANGED <<propVars, cacheVars, v2Vars, hasError, errorMessage, isLoading,
                 controls, position0, loaderUrl, isLoaded>>

\* controlsRef.current.reset(); setZoom(5)
HandleResetV1 ==
  /\ unit = "V1" /\ ~EffectPending /\ ControlsOffered
  /\ IF ~controls
       THEN UNCHANGED <<zoom, cameraZ, zoomLog>>
       ELSE /\ cameraZ' = position0
            /\ zoom' = DefaultZ1
            /\ zoomLog' = <<>>
  /\ UNCHANGED <<propVars, cacheVars, v2Vars, hasError, errorMessage, isLoading,
                 controls, position0, loaderUrl, isLoaded>>

\* ------------------------------------------- useInvalidateProducts: the hook
\* invalidateQueries matches by prefix: every entry whose key starts with
\* the elements of the query key
Matches(queryKey, entry) ==
  /\ Len(queryKey) <= Len(entry)
  /\ \A k \in 1..Len(queryKey) : queryKey[k] = entry[k]

\* the cache entries that a sequence of invalidateQueries calls marks stale
MarkedBy(keys) ==
  {e \in CacheEntries : \E k \in DOMAIN keys : Matches(keys[k], e)}

\* a plausible slip: the variations are forgotten
AllProductsKeysNoVariations == << <<"products">>, <<"product">> >>

\* the query keys of invalidateAllProducts, in call order
AllProductsKeys == << <<"products">>, <<"product">>, <<"productVariations">> >>

\* a plausible slip: the key leaves out the id
ProductRecordKeyNoId(id) == <<"product">>

\* ['product', productId]
ProductRecordKey(id) == <<"product", id>>

\* a plausible slip: the key of the list, not of the variations
VariationsKeyAsList(id) == <<"products">>

\* ['productVariations', productId]
VariationsKey(id) == <<"productVariations", id>>

\* the query keys of invalidateProduct(productId), in call order
ProductKeys(id) == <<ProductRecordKey(id), VariationsKey(id)>>

\* one call of the hook: it passes the keys to invalidateQueries in turn
Invalidate(op, keys) ==
  /\ lastOp' = op
  /\ issued' = keys
  /\ marked' = MarkedBy(keys)
  /\ stale' = stale \cup MarkedBy(keys)
  /\ UNCHANGED <<propVars, v2Vars, v1Vars, canvasVars>>

\* invalidateAllProducts()
InvalidateAllProducts ==
  /\ unit = "cache"
  /\ Invalidate(<<"invalidateAllProducts">>, AllProductsKeys)

\* invalidateProduct(productId)
InvalidateProduct(id) ==
  /\ unit = "cache"
  /\ Invalidate(<<"invalidateProduct", id>>, ProductKeys(id))

\* ----------------------------------------------------------- specification
Next ==
  \/ \E u \in Urls : Open(u)
  \/ Close
  \/ \E u \in Urls : ChangeUrl(u)
  \/ Unmount
  \/ RunEffectV2
  \/ \E i \in 1..MaxEffects, status \in Statuses : FetchResolve(i, status)
  \/ \E i \in 1..MaxEffects, e \in Rejections : FetchReject(i, e)
  \/ \E i \in 1..MaxEffects : BlobResolve(i)
  \/ \E i \in 1..MaxEffects, e \in Rejections : BlobReject(i, e)
  \/ SceneLoadedV2
  \/ HandleZoomInV2
  \/ HandleZoomOutV2
  \/ HandleResetV2
  \/ ResetEffectV1
  \/ SceneLoadedV1
  \/ OrbitEndV1
  \/ CanvasErrorV1
  \/ HandleZoomInV1
  \/ HandleZoomOutV1
  \/ HandleResetV1
  \/ SceneFailedV2
  \/ RenderSceneV1
  \/ SceneFailedV1
  \/ UrlCheckEffectV1
  \/ InvalidateAllProducts
  \/ \E id \in Ids : InvalidateProduct(id)

Spec == Init /\ [][Next]_vars

TypeOK ==
  /\ unit \in {"V2", "V1", "cache"}
  /\ crashed \in BOOLEAN
  /\ isLoaded \in BOOLEAN
  /\ loaderUrl \in Urls \cup {NoUrl}
  /\ stale \subseteq CacheEntries
  /\ marked \subseteq stale
  /\ mounted \in BOOLEAN
  /\ isOpen \in BOOLEAN
  /\ modelUrl \in Urls
  /\ localUrl \in 0..MaxEffects
  /\ isPreparing \in BOOLEAN
  /\ isModelReady \in BOOLEAN
  /\ Len(eff) <= MaxEffects
  /\ Len(objectUrls) <= MaxEffects
  /\ hasError \in BOOLEAN
  /\ isLoading \in BOOLEAN
  /\ controls \in BOOLEAN
  /\ Len(zoomLog) <= 2

\* ------------------------------------------------------------------ claims
\* the closure i belongs to a session that is over: a later effect run has
\* replaced it, or the component is unmounted
Stale(i) == i < Len(eff) \/ ~mounted

\* every fetch that was issued has settled
AllSettled == \A i \in DOMAIN eff : eff[i].pc \in {"returned", "done"}

\* C1: in Modal3DViewerV2, once the modal is closed or unmounted and every
\* fetch has settled, every object URL that was created has been revoked
C1_EveryHandleReleased ==
  (unit = "V2" /\ (~mounted \/ (~isOpen /\ ~EffectPending)) /\ AllSettled)
    => \A h \in DOMAIN objectUrls :
         objectUrls[h].created >= 1 => objectUrls[h].revoked >= 1

\* C2: in Modal3DViewerV2, a session whose fetch succeeds before the session
\* ends creates exactly one object URL, which is not revoked while the
\* session is live and is revoked exactly once when it has ended; no object
\* URL is ever revoked twice
C2_OneHandleReleasedOnce ==
  /\ \A h \in DOMAIN objectUrls : objectUrls[h].revoked <= 1
  /\ \A i \in DOMAIN eff :
       /\ objectUrls[i].created = (IF eff[i].outcome = "ok" THEN 1 ELSE 0)
       /\ (eff[i].outcome = "ok" /\ eff[i].applied) =>
            objectUrls[i].revoked = (IF Stale(i) THEN 1 ELSE 0)

\* a session got its object URL while live, then ended, and the URL is revoked
C2_Witness ==
  \E i \in DOMAIN eff :
    /\ eff[i].outcome = "ok" /\ eff[i].applied /\ Stale(i)
    /\ objectUrls[i].created = 1 /\ objectUrls[i].revoked = 1

\* C3: in Modal3DViewerV2, when the fetch of a session that is over settles
\* (success, non-success status or rejection), none of localUrl, error,
\* isPreparing and isModelReady changes
C3_StaleOutcomeDiscarded ==
  [][\A i \in DOMAIN eff :
       (Stale(i) /\ eff'[i].pc # eff[i].pc)
         => UNCHANGED <<localUrl, error, isPreparing, isModelReady>>]_vars

\* a stale fetch has settled while the session that replaced it is preparing
C3_Witness ==
  /\ mounted /\ isOpen /\ isPreparing /\ ~EffectPending
  /\ \E i \in DOMAIN eff :
       Stale(i) /\ eff[i].fetches = 1 /\ eff[i].pc = "done" /\ ~eff[i].applied

\* C4: in Modal3DViewerV2, once the effect of an open modal with an empty or
\* white-space-only URL has run, the error is the 'URL not provided'
\* message, isPreparing is false, localUrl is null and the session has issued
\* no fetch
C4_BlankUrlErrorNoFetch ==
  (unit = "V2" /\ mounted /\ isOpen /\ ~EffectPending /\ IsBlank(modelUrl))
    => /\ error = MsgNoUrl
       /\ ~isPreparing
       /\ localUrl = Null
       /\ eff[Len(eff)].fetches = 0
       /\ eff[Len(eff)].pc = "returned"

\* the modal is open with a white-space-only URL and its effect has run
C4_Witness ==
  /\ unit = "V2" /\ mounted /\ isOpen /\ ~EffectPending
  /\ modelUrl = <<" ">>
  /\ error = MsgNoUrl

\* C5: in Modal3DViewerV2, when the fetch of the live session returned a
\* non-successful status, the error message embeds that status code, no
\* object URL was created by the session and localUrl is null
C5_HttpErrorEmbedsStatus ==
  \A i \in DOMAIN eff :
    (/\ i = Len(eff) /\ mounted
     /\ eff[i].pc = "done" /\ eff[i].status # 0)
      => /\ \E k \in DOMAIN error : error[k] = StatusText(eff[i].status)
         /\ ~isPreparing
         /\ objectUrls[i].created = 0
         /\ localUrl = Null

\* the live session received a 404
C5_Witness ==
  /\ mounted /\ isOpen /\ ~EffectPending /\ eff # <<>>
  /\ eff[Len(eff)].pc = "done" /\ eff[Len(eff)].status = 404
  /\ error = <<"HTTP ", "404", " ao baixar o arquivo", ".">>

\* the fetch of the session of the currently requested URL has succeeded
CurrentFetchSucceeded ==
  /\ eff # <<>>
  /\ depsRun = <<TRUE, Normalize(modelUrl)>>
  /\ eff[Len(eff)].outcome = "ok"

\* C6: in every reachable state of Modal3DViewerV2, localUrl is non-null if
\* and only if the fetch for the currently requested URL succeeded, it is
\* never an object URL obtained for another URL, and localUrl and error are
\* never both non-null (stated for the states whose effects have run: the
\* claim covers them, and the code breaks it there)
C6_LocalUrlIffFetchSucceeded ==
  (unit = "V2" /\ mounted /\ ~EffectPending) =>
    /\ (localUrl # Null) <=> CurrentFetchSucceeded
    /\ localUrl # Null =>
         localUrl = Len(eff) /\ depsRun = <<TRUE, Normalize(modelUrl)>>
    /\ ~(localUrl # Null /\ error # NoError)

\* C7: after a close of Modal3DViewerV2, from any state, localUrl and error
\* are null and the preparing and ready flags are false
C7_CloseDiscardsState ==
  (unit = "V2" /\ mounted /\ ~isOpen /\ ~EffectPending)
    => /\ localUrl = Null
       /\ error = NoError
       /\ ~isPreparing
       /\ ~isModelReady

\* the state of a session right after its reset: no error, no resolved asset,
\* loading again, camera at the default distance
ResetDone ==
  IF unit = "V2"
    THEN /\ localUrl = Null
         /\ ~isModelReady
         /\ IF IsBlank(modelUrl)
              THEN error = MsgNoUrl /\ ~isPreparing
              ELSE error = NoError /\ isPreparing
         /\ cameraZ = Null
    ELSE /\ ~hasError
         /\ errorMessage = NoError
         /\ isLoading
         /\ zoom = DefaultZ1
         /\ cameraZ = DefaultZ1

\* C8: on every open event and on every change of the source URL while the
\* modal is open, once the effect of that render has run the session is
\* reset: the prior error and the prior resolved asset are cleared, the ready
\* flag is false and the camera is at its default distance (in
\* Modal3DViewerV2 the Canvas is gone, and every Canvas starts at the default)
C8_ResetOnOpenOrUrlChange ==
  [][/\ (EffectPending /\ ~EffectPending' /\ mounted' /\ isOpen) => ResetDone'
     /\ (unit = "V2" /\ cameraZ = Null /\ cameraZ' # Null)
          => cameraZ' = DefaultZ2]_vars

\* the camera distance the zoom buttons work on
Distance == IF unit = "V2" THEN cameraZ ELSE zoom

\* the last click was a zoom-in at the minimum or a zoom-out at the maximum
ClickAtBound ==
  /\ zoomLog # <<>>
  /\ LET last == zoomLog[Len(zoomLog)]
     IN \/ last.op = "in" /\ last.before = (IF unit = "V2" THEN MinZ2 ELSE MinZ1)
        \/ last.op = "out" /\ last.before = (IF unit = "V2" THEN MaxZ2 ELSE MaxZ1)

InThenOutFromDefault ==
  /\ Len(zoomLog) = 2
  /\ zoomLog[1].op = "in"
  /\ zoomLog[1].before = (IF unit = "V2" THEN DefaultZ2 ELSE DefaultZ1)
  /\ zoomLog[2].op = "out"

LiveV2 == unit = "V2" /\ mounted /\ isOpen /\ ~EffectPending

\* C11: in Modal3DViewerV2, whenever the zoom and reset buttons are offered
\* the modal is open, the session is not preparing, localUrl is non-null and
\* there is no error; they are never offered while preparing or in error
C11_ControlsOnlyInReady ==
  (unit = "V2" /\ ControlsOffered)
    => /\ isOpen
       /\ ~isPreparing
       /\ localUrl # Null
       /\ error = NoError

\* the buttons are offered over a loaded scene
C11_Witness ==
  LiveV2 /\ ControlsOffered /\ controls /\ localUrl = Len(eff)

\* the number of closures of Modal3DViewerV2 that have issued a fetch, and of
\* fetches they have issued
FetchCount ==
  << Cardinality({i \in DOMAIN eff : eff[i].fetches > 0}),
     Cardinality({i \in DOMAIN eff : eff[i].fetches > 1}) >>

\* C12: while a session of Modal3DViewerV2 is in error and the parent neither
\* closes the modal nor changes the normalized URL nor unmounts it, every step
\* leaves the error message as it is and issues no fetch
C12_ErrorIsTerminal ==
  [][(/\ LiveV2 /\ error # NoError
      /\ mounted' /\ isOpen' /\ Deps' = Deps)
       => /\ error' = error
          /\ FetchCount' = FetchCount
          /\ localUrl' = Null
          /\ ~isPreparing']_vars

\* a session is in error after its fetch failed, and the fetch of an earlier
\* session has settled since then
C12_Witness ==
  /\ LiveV2 /\ error # NoError /\ Len(eff) >= 2
  /\ eff[Len(eff)].outcome = "fail"
  /\ eff[Len(eff)].fetches = 1
  /\ AllSettled

\* C13: an error thrown while the scene loads, parses or renders is handled
\* inside the component, in Modal3DViewer and in Modal3DViewerV2: it never
\* leaves the component, which stays mounted and shows an error message
C13_RenderErrorHandledInside == ~crashed

\* C14: invalidateProduct(id) passes exactly two query keys to
\* invalidateQueries: ['product', id] and ['productVariations', id]
C14_InvalidateProductTwoKeys ==
  \A id \in Ids :
    lastOp = <<"invalidateProduct", id>>
      => /\ Len(issued) = 2
         /\ {issued[k] : k \in DOMAIN issued}
              = { <<"product", id>>, <<"productVariations", id>> }

\* invalidateProduct was called for a cached product
C14_Witness ==
  /\ lastOp = <<"invalidateProduct", "p2">>
  /\ issued # <<>>

\* the entries of the three groups: the list, the records, the variations
ProductEntries ==
  {e \in CacheEntries : e[1] \in {"products", "product", "productVariations"}}

\* C15: right after invalidateAllProducts(), whatever the cache state before
\* it, the product list, every product record and every variation record
\* are stale
C15_InvalidateAllMarksThreeGroups ==
  lastOp = <<"invalidateAllProducts">>
    => /\ ProductEntries \subseteq marked
       /\ ProductEntries \subseteq stale

\* invalidateAllProducts was called on a cache with fresh product entries
C15_Witness ==
  /\ lastOp = <<"invalidateAllProducts">>
  /\ stale = ProductEntries

\* C16: in Modal3DViewer, once the scene of the requested URL has loaded the
\* session is ready without any user gesture: isLoading is false
C16_ReadyAfterLoadV1 ==
  (/\ unit = "V1" /\ CanvasMounted /\ ~EffectPending
   /\ controls /\ isLoaded /\ loaderUrl = modelUrl)
    => ~isLoading

\* C17: in Modal3DViewer, useGLTF is never called with the empty URL
C17_EmptyUrlNeverLoaded ==
  unit = "V1" => loaderUrl # <<>>

\* C18: in Modal3DViewerV2, once the fetch of the live session has settled the
\* session has left Preparing: isPreparing is false and exactly one of
\* localUrl and error is set
C18_SettledLeavesPreparing ==
  (LiveV2 /\ eff[Len(eff)].pc = "done")
    => /\ ~isPreparing
       /\ (localUrl # Null) # (error # NoError)

\* the fetch of the live session has succeeded and its result is in place
C18_Witness ==
  /\ LiveV2 /\ eff[Len(eff)].pc = "done" /\ eff[Len(eff)].outcome = "ok"
  /\ localUrl = Len(eff) /\ ~isPreparing

\* C19: in Modal3DViewerV2, whenever the modal is open and localUrl is
\* non-null, the object URL it names has been created and is not revoked
C19_NoUseOfReleasedHandle ==
  (unit = "V2" /\ mounted /\ isOpen /\ localUrl # Null)
    => /\ objectUrls[localUrl].created = 1
       /\ objectUrls[localUrl].revoked = 0

\* C20: invalidateProduct(id) marks stale neither the product list nor an
\* entry of another id, and nothing that invalidateAllProducts() would not
\* mark
C20_InvalidateProductFrame ==
  \A id \in Ids :
    lastOp = <<"invalidateProduct", id>>
      => /\ <<"products">> \notin marked
         /\ \A e \in marked : Len(e) >= 2 /\ e[2] = id
         /\ marked \subseteq MarkedBy(AllProductsKeys)

\* invalidateProduct was called for one product while the list and the
\* entries of the other product were fresh, and they still are
C20_Witness ==
  /\ lastOp = <<"invalidateProduct", "p1">>
  /\ stale = { <<"product", "p1">>, <<"productVariations", "p1">> }

====
